---- MODULE Spec2Model ----
(***************************************************************************)
(* Pulse heartbeat monitor: the check store (src/src/core/db.js), the      *)
(* status engine and the webhook report (scheduler.js,                     *)
(* src/unnamed/part_002), the ping endpoint and the process start          *)
(* (src/server.js), the admin routes and the list read through the cache   *)
(* (src/unnamed/part_004, src/unnamed/part_003).                           *)
(*                                                                         *)
(* Every handler is a synchronous JavaScript callback over the synchronous *)
(* better-sqlite3 driver: it runs to completion on the event loop, so each *)
(* handler is one action.                                                  *)
(***************************************************************************)
EXTENDS Integers, Sequences, FiniteSets, TLC

----------------------------------------------------------------------------
(* Bounds of the model *)

MaxChecks == 1
StartSec == 1
MaxSec == 2
TickMs == 500
MaxCount == 2
IdleMs == 10000
MaxIdleSec == 21

\* longest duration string handed to the parser
MaxLen == 3

----------------------------------------------------------------------------
(* Program constants and value encodings *)

MsPerSec == 1000

\* cache.js: standard TTL of a cached item, seconds
standardTTL == 10

\* SQL NULL / JS null in an INTEGER column, and in the TEXT column last_error
NULL == -1
NullText == "<null>"

\* JS truthiness of a nullable number: null and 0 are falsy
Truthy(x) == x # NULL /\ x # 0

\* JS numeric coercion in `x * 1000`: null coerces to 0
Num(x) == IF x = NULL THEN 0 ELSE x

----------------------------------------------------------------------------
(* Duration parser: scheduler.js parseDuration.  A string is a sequence of  *)
(* one-character strings.                                                  *)

Digits == <<"0", "1", "2", "3", "4", "5", "6", "7", "8", "9">>

IsDigit(c) == \E i \in 1..10 : Digits[i] = c

DigitVal(c) == (CHOOSE i \in 1..10 : Digits[i] = c) - 1

\* length of the maximal prefix of digits: the greedy (\d+) group
RECURSIVE DigitPrefixLen(_)
DigitPrefixLen(s) ==
  IF s = <<>> \/ ~IsDigit(Head(s)) THEN 0 ELSE 1 + DigitPrefixLen(Tail(s))

\* parseInt(digits, 10)
RECURSIVE ParseInt(_)
ParseInt(s) ==
  IF s = <<>> THEN 0
  ELSE ParseInt(SubSeq(s, 1, Len(s) - 1)) * 10 + DigitVal(s[Len(s)])

\* values that are not strings: each is a one-element sequence holding the
\* name of its type, which no string of one-character strings equals
NonStrings == { <<"null">>, <<"undefined">>, <<"number">> }

\* typeof durationStr === 'string'
IsString(v) == v \notin NonStrings

\* mutant: a number without a unit counts as milliseconds
parseDurationLoose(durationStr) ==
  LET n == DigitPrefixLen(durationStr)
      unit == SubSeq(durationStr, n + 1, Len(durationStr))
      value == ParseInt(SubSeq(durationStr, 1, n))
  IN IF ~IsString(durationStr) \/ n = 0 THEN 0
     ELSE IF unit = <<"m", "s">> \/ unit = <<>> THEN value
     ELSE IF unit = <<"s">> THEN value * 1000
     ELSE IF unit = <<"m">> THEN value * 60 * 1000
     ELSE IF unit = <<"h">> THEN value * 60 * 60 * 1000
     ELSE IF unit = <<"d">> THEN value * 24 * 60 * 60 * 1000
     ELSE 0

parseDuration(durationStr) ==
  LET n == DigitPrefixLen(durationStr)
      unit == SubSeq(durationStr, n + 1, Len(durationStr))
      value == ParseInt(SubSeq(durationStr, 1, n))
  IN IF ~IsString(durationStr) THEN 0
     ELSE IF n = 0 THEN 0
     ELSE IF unit = <<"m", "s">> THEN value
     ELSE IF unit = <<"s">> THEN value * 1000
     ELSE IF unit = <<"m">> THEN value * 60 * 1000
     ELSE IF unit = <<"h">> THEN value * 60 * 60 * 1000
     ELSE IF unit = <<"d">> THEN value * 24 * 60 * 60 * 1000
     ELSE 0

----------------------------------------------------------------------------
(* Inputs of the requests *)

\* bodies a client posts to POST /checks (it rejects empty fields): one with
\* well-formed durations, one with a missing unit and a negative number
BodyInputs ==
  { [ name |-> "job", schedule |-> <<"2", "5", "0", "m", "s">>,
      grace |-> <<"2", "5", "0", "m", "s">> ],
    [ name |-> "job", schedule |-> <<"1", "0">>,
      grace |-> <<"-", "1", "s">> ] }

\* ?duration= of a ping: absent (null) or a number
DurationInputs == { NULL, 7 }

\* reason of a failure report
ReasonInputs == { "manual" }

\* mutant: the generator hands out two tokens in turn
UuidRecycled(id) == 100 + ((id - 1) % 2) + 1

\* uuidv4() yields a fresh token per check; Uuid(id) is the token of check id
Uuid(id) == 100 + id

\* tokens a request may carry: a token matches no check before its check is
\* created and after it is deleted
Tokens == { Uuid(i) : i \in 1..MaxChecks }

\* the checks a database file left by an earlier run holds at process start
BatchSize == MaxChecks + 1

\* tokens of those checks, and one that was never given to a check
BatchTokens == { Uuid(i) : i \in 1..(BatchSize + 1) }

\* process.env.WEBHOOK_URL: unset or set
WebhookInputs == { NullText, "hook" }

\* what the webhook answers: response.ok, or a failure (fetch throws, or a
\* status that is not ok)
DeliveryInputs == { "ok", "failed" }

\* ?page= and ?limit= of GET /checks after parseInt: absent (NaN, modelled as
\* null) or a number
QueryInputs ==
  { [ page |-> NULL, limit |-> NULL ], [ page |-> 2, limit |-> 1 ] }

\* the browser sessions (one pulse-session cookie each)
Sessions == { "operator", "visitor" }

\* a secret is a string of UTF-16 code units; "U+D800" is a lone surrogate,
\* "U+FFFD" the replacement character
AdminSecrets == { <<"k">>, <<"U+FFFD">> }

\* process.env.ADMIN_SECRET: a secret, or unset (the empty string)
EnvInputs == AdminSecrets \cup { <<>> }

\* the secret of a login body: strings, the empty string, not a string
SecretInputs ==
  { <<"k">>, <<"x">>, <<"U+FFFD">>, <<"U+D800">>, <<>>, <<"number">> }

----------------------------------------------------------------------------
VARIABLES
  checks,    \* the checks table: internal id -> row
  nextId,    \* AUTOINCREMENT: the id the next INSERT gets
  now,       \* Date.now(), milliseconds
  gauges,    \* prom-client gauges: uuid label -> values
  event,     \* the callback that ran last, the row it found, its response
  accepted,  \* history: ids of the checks that have had a ping accepted
  cache,     \* node-cache: key -> entry
  proc,      \* the Node process: "running", or "stopped" (not started, exited)
  issued,    \* history: the tokens uuidv4() has handed to createCheck
  auth       \* ADMIN_SECRET of the environment and isAdmin of every session

vars ==
  <<checks, nextId, now, gauges, event, accepted, cache, proc, issued, auth>>

\* Math.floor(Date.now() / 1000)
NowSec == now \div MsPerSec

----------------------------------------------------------------------------
(* The store: src/src/core/db.js *)

\* queries.getByUuid: the ids of the rows with that uuid (uuid is UNIQUE)
IdsByUuid(store, uuid) == { id \in DOMAIN store : store[id].uuid = uuid }

\* getCheckByUuid: <<row>>, or <<>> for undefined
getCheckByUuid(store, uuid) ==
  IF IdsByUuid(store, uuid) = {} THEN <<>>
  ELSE << store[CHOOSE id \in IdsByUuid(store, uuid) : TRUE] >>

\* mutant: the engine loads every row (getAllUnpaginated)
getAllActiveUnfiltered(store) == { store[id] : id \in DOMAIN store }

\* mutant: failed checks are left out of the engine's batch as well
getAllActiveNotFailed(store) ==
  { store[id] : id \in { i \in DOMAIN store :
                           store[i].status \notin {"maintenance", "failed"} } }

\* queries.getAllActive: SELECT * FROM checks WHERE status != 'maintenance'
getAllActive(store) ==
  { store[id] : id \in { i \in DOMAIN store : store[i].status # "maintenance" } }

\* createCheck: INSERT with the column defaults of the schema
NewRow(id, name, schedule, grace, t) ==
  [ id |-> id, uuid |-> Uuid(id), name |-> name,
    schedule |-> schedule, grace |-> grace,
    status |-> "new",
    last_ping_at |-> NULL, last_ping_duration_ms |-> NULL,
    consecutive_down_count |-> 0,
    created_at |-> t \div MsPerSec,
    last_error |-> NullText ]

\* mutant: the INSERT stamps the creation time into last_ping_at as well
createCheckStamped(store, id, name, schedule, grace, t) ==
  (id :> [ NewRow(id, name, schedule, grace, t) EXCEPT
             !.last_ping_at = t \div MsPerSec ]) @@ store

createCheck(store, id, name, schedule, grace, t) ==
  (id :> NewRow(id, name, schedule, grace, t)) @@ store

\* the rows in rowid order
RECURSIVE RowsInOrder(_, _)
RowsInOrder(store, ids) ==
  IF ids = {} THEN <<>>
  ELSE LET i == CHOOSE i \in ids : \A j \in ids : i <= j
       IN <<store[i]>> \o RowsInOrder(store, ids \ {i})

\* queries.getAll: SELECT * FROM checks ORDER BY name ASC LIMIT ? OFFSET ?
\* (the names the requests carry are equal, which leaves the rowid order)
getAll(store, limit, offset) ==
  LET rows == RowsInOrder(store, DOMAIN store)
      last == IF offset + limit < Len(rows) THEN offset + limit ELSE Len(rows)
  IN SubSeq(rows, offset + 1, last)

\* queries.getTotal: SELECT COUNT(*) as total FROM checks
getTotal(store) == Cardinality(DOMAIN store)

\* getAllChecks({ page = 1, limit = 20 }): arg is << [page, limit] >>, or <<>>
\* for a call without an argument; the parameter has no default, so
\* destructuring undefined throws a TypeError: the result is << result >>,
\* or <<>> when the call throws
getAllChecks(store, arg) ==
  IF arg = <<>> THEN <<>>
  ELSE LET page == arg[1].page
           limit == arg[1].limit
           offset == (page - 1) * limit
           total == getTotal(store)
       IN << [ checks |-> getAll(store, limit, offset),
               meta |-> [ total |-> total, page |-> page, limit |-> limit,
                          totalPages |-> (total + limit - 1) \div limit ] ] >>

\* mutant: the DELETE has lost its WHERE clause
deleteCheckNoWhere(store, uuid) ==
  [ id \in {} |-> store[id] ]

\* deleteCheck: DELETE FROM checks WHERE uuid = ?
deleteCheck(store, uuid) ==
  [ id \in DOMAIN store \ IdsByUuid(store, uuid) |-> store[id] ]

\* the value deleteCheck returns: .changes, the number of rows removed
deleteCheckChanges(store, uuid) ==
  Cardinality(DOMAIN store) - Cardinality(DOMAIN deleteCheck(store, uuid))

\* mutant: the UPDATE forgets to reset the counter
PingUpdateKeepsCount(row, t, duration) ==
  [ row EXCEPT !.status = "up",
               !.last_ping_at = t \div MsPerSec,
               !.last_ping_duration_ms = duration,
               !.last_error = NullText ]

\* mutant: the ping is stamped one second back
PingUpdateBackdated(row, t, duration) ==
  [ row EXCEPT !.status = "up",
               !.last_ping_at = (t \div MsPerSec) - 1,
               !.last_ping_duration_ms = duration,
               !.consecutive_down_count = 0,
               !.last_error = NullText ]

\* queries.recordPing: the UPDATE statement
PingUpdate(row, t, duration) ==
  [ row EXCEPT !.status = "up",
               !.last_ping_at = t \div MsPerSec,
               !.last_ping_duration_ms = duration,
               !.consecutive_down_count = 0,
               !.last_error = NullText ]

\* mutant: no maintenance guard before the UPDATE
recordPingNoGuard(store, uuid, duration, t) ==
  [ id \in DOMAIN store |->
      IF store[id].uuid = uuid
      THEN PingUpdate(store[id], t, duration)
      ELSE store[id] ]

\* recordPing: the maintenance guard, then the UPDATE, in one transaction
recordPing(store, uuid, duration, t) ==
  [ id \in DOMAIN store |->
      IF store[id].uuid = uuid /\ store[id].status # "maintenance"
      THEN PingUpdate(store[id], t, duration)
      ELSE store[id] ]

\* mutant: the failure UPDATE leaves the counter alone
FailureUpdateKeepsCount(row, t, reason) ==
  [ row EXCEPT !.status = "failed",
               !.last_ping_at = t \div MsPerSec,
               !.last_error = reason ]

\* queries.recordFailure: the UPDATE statement
FailureUpdate(row, t, reason) ==
  [ row EXCEPT !.status = "failed",
               !.last_ping_at = t \div MsPerSec,
               !.last_error = reason,
               !.consecutive_down_count = 0 ]

\* mutant: the UPDATE has lost its WHERE clause
recordFailureNoWhere(store, uuid, reason, t) ==
  [ id \in DOMAIN store |-> FailureUpdate(store[id], t, reason) ]

\* mutant: the failure report honours the maintenance guard of pings
recordFailureGuarded(store, uuid, reason, t) ==
  [ id \in DOMAIN store |->
      IF store[id].uuid = uuid /\ store[id].status # "maintenance"
      THEN FailureUpdate(store[id], t, reason)
      ELSE store[id] ]

\* recordFailure: unconditional UPDATE by uuid, in one transaction
recordFailure(store, uuid, reason, t) ==
  [ id \in DOMAIN store |->
      IF store[id].uuid = uuid THEN FailureUpdate(store[id], t, reason)
      ELSE store[id] ]

\* mutant: the down write matches every id from the given one on
setCheckDownFrom(store, id) ==
  [ i \in DOMAIN store |->
      IF i >= id
      THEN [ store[i] EXCEPT !.status = "down",
                             !.consecutive_down_count = @ + 1 ]
      ELSE store[i] ]

\* mutant: the down write also stamps the time into last_ping_at
setCheckDownStamps(store, id) ==
  [ i \in DOMAIN store |->
      IF i = id
      THEN [ store[i] EXCEPT !.status = "down",
                             !.consecutive_down_count = @ + 1,
                             !.last_ping_at = store[i].created_at ]
      ELSE store[i] ]

\* queries.setDown / setCheckDown: UPDATE by internal id
setCheckDown(store, id) ==
  [ i \in DOMAIN store |->
      IF i = id
      THEN [ store[i] EXCEPT !.status = "down",
                             !.consecutive_down_count = @ + 1 ]
      ELSE store[i] ]

\* mutant: leaving maintenance always yields 'up'
ToggledStatusAlwaysUp(check) ==
  IF check.status = "maintenance" THEN "up" ELSE "maintenance"

\* mutant: entering maintenance writes 'paused'
ToggledStatusPaused(check) ==
  IF check.status = "maintenance"
  THEN (IF Truthy(check.last_ping_at) THEN "up" ELSE "new")
  ELSE "paused"

\* toggleMaintenance: the status the toggle writes
ToggledStatus(check) ==
  IF check.status = "maintenance"
  THEN (IF Truthy(check.last_ping_at) THEN "up" ELSE "new")
  ELSE "maintenance"

\* mutant: leaving maintenance starts the counter afresh
toggleMaintenanceResetsCount(store, uuid) ==
  [ id \in DOMAIN store |->
      IF store[id].uuid = uuid
      THEN [ store[id] EXCEPT
               !.status = ToggledStatus(store[id]),
               !.consecutive_down_count =
                 IF store[id].status = "maintenance" THEN 0 ELSE @ ]
      ELSE store[id] ]

\* mutant: leaving maintenance restarts the clock of the check
toggleMaintenanceRestartsClock(store, uuid) ==
  [ id \in DOMAIN store |->
      IF store[id].uuid = uuid
      THEN [ store[id] EXCEPT
               !.status = ToggledStatus(store[id]),
               !.last_ping_at =
                 IF store[id].status = "maintenance" THEN NowSec ELSE @ ]
      ELSE store[id] ]

\* mutant: leaving maintenance counts as one more down period
toggleMaintenanceBumpsCount(store, uuid) ==
  [ id \in DOMAIN store |->
      IF store[id].uuid = uuid
      THEN [ store[id] EXCEPT
               !.status = ToggledStatus(store[id]),
               !.consecutive_down_count =
                 IF store[id].status = "maintenance" THEN @ + 1 ELSE @ ]
      ELSE store[id] ]

\* mutant: leaving maintenance always yields 'new'
toggleMaintenanceForgets(store, uuid) ==
  [ id \in DOMAIN store |->
      IF store[id].uuid = uuid
      THEN [ store[id] EXCEPT
               !.status = IF @ = "maintenance" THEN "new" ELSE "maintenance" ]
      ELSE store[id] ]

\* toggleMaintenance: one UPDATE of the status column, in one transaction
toggleMaintenance(store, uuid) ==
  [ id \in DOMAIN store |->
      IF store[id].uuid = uuid
      THEN [ store[id] EXCEPT !.status = ToggledStatus(store[id]) ]
      ELSE store[id] ]

----------------------------------------------------------------------------
(* Metrics: src/src/metrics.js *)

statusMap(status) ==
  CASE status = "down" -> 0
    [] status = "up" -> 1
    [] status = "new" -> 2
    [] status = "maintenance" -> 3
    [] status = "failed" -> 4
    [] OTHER -> 2

\* updateMetricsForCheck: lastPingTimestamp is set only for a truthy
\* last_ping_at, lastPingDuration is reset to 0 for a null duration
updateMetricsForCheck(g, check) ==
  LET old == IF check.uuid \in DOMAIN g THEN g[check.uuid].lastPingTimestamp
             ELSE NULL
  IN (check.uuid :>
        [ status |-> statusMap(check.status),
          consecutiveDownCount |-> check.consecutive_down_count,
          lastPingTimestamp |->
            IF Truthy(check.last_ping_at) THEN check.last_ping_at ELSE old,
          lastPingDuration |->
            IF check.last_ping_duration_ms # NULL
            THEN check.last_ping_duration_ms ELSE 0 ]) @@ g

\* mutant: the gauges of a deleted check are left behind
removeMetricsKeeps(g, check) == g

removeMetricsForCheck(g, check) ==
  [ u \in DOMAIN g \ {check.uuid} |-> g[u] ]

----------------------------------------------------------------------------
(* Status engine: scheduler.js runStatusChecks *)

\* mutant: a schedule that does not parse counts as one minute
scheduleMsDefaulted(check) ==
  IF parseDuration(check.schedule) = 0 THEN 60 * 1000
  ELSE parseDuration(check.schedule)

scheduleMs(check) == parseDuration(check.schedule)
graceMs(check) == parseDuration(check.grace)

\* mutant: every check is measured from its creation
referenceTimeCreated(check) == check.created_at * MsPerSec

\* created_at for a 'new' check, last_ping_at for all others (null -> 0)
referenceTime(check) ==
  IF check.status = "new" /\ Truthy(check.created_at)
  THEN check.created_at * MsPerSec
  ELSE Num(check.last_ping_at) * MsPerSec

\* mutant: the grace period is left out of the deadline
deadlineNoGrace(check) == referenceTime(check) + scheduleMs(check)

deadline(check) == referenceTime(check) + scheduleMs(check) + graceMs(check)

\* mutant: the deadline instant itself counts as overdue
MarksDownAtDeadline(check, t) ==
  /\ referenceTime(check) # 0
  /\ t >= deadline(check)
  /\ check.status # "down"

\* mutant: an overdue check is marked again on every run
MarksDownAgain(check, t) ==
  /\ referenceTime(check) # 0
  /\ t > deadline(check)

\* the test of one loaded check: it has a reference time, is past its
\* deadline and is not already 'down'
MarksDown(check, t) ==
  /\ referenceTime(check) # 0
  /\ t > deadline(check)
  /\ check.status # "down"

\* the for loop over the loaded batch, in rowid order; each setCheckDown
\* writes the store as it is at that moment
RECURSIVE statusLoop(_, _, _, _)
statusLoop(store, g, batch, t) ==
  IF batch = {} THEN [ store |-> store, gauges |-> g ]
  ELSE LET check == CHOOSE c \in batch : \A d \in batch : c.id <= d.id
           rest == batch \ {check}
       IN IF MarksDown(check, t)
          THEN LET updated == setCheckDown(store, check.id)
               IN statusLoop(updated,
                             IF check.id \in DOMAIN updated
                             THEN updateMetricsForCheck(g, updated[check.id])
                             ELSE g,
                             rest, t)
          ELSE statusLoop(store, g, rest, t)

runStatusChecks(store, g, t) == statusLoop(store, g, getAllActive(store), t)

\* the same loop when the store throws on the down write of check `bad`: the
\* loop has no try/catch, the exception leaves it there
RECURSIVE statusLoopThrows(_, _, _, _, _)
statusLoopThrows(store, g, batch, t, bad) ==
  IF batch = {} THEN [ store |-> store, gauges |-> g, thrown |-> FALSE ]
  ELSE LET check == CHOOSE c \in batch : \A d \in batch : c.id <= d.id
           rest == batch \ {check}
       IN IF MarksDown(check, t)
          THEN IF check.id = bad
               THEN [ store |-> store, gauges |-> g, thrown |-> TRUE ]
               ELSE LET updated == setCheckDown(store, check.id)
                    IN statusLoopThrows(updated,
                         IF check.id \in DOMAIN updated
                         THEN updateMetricsForCheck(g, updated[check.id])
                         ELSE g,
                         rest, t, bad)
          ELSE statusLoopThrows(store, g, rest, t, bad)

runStatusChecksThrows(store, g, t, bad) ==
  statusLoopThrows(store, g, getAllActive(store), t, bad)

\* hydrateMetrics: the gauges are reset, then set from every stored check
RECURSIVE hydrateLoop(_, _, _)
hydrateLoop(store, g, ids) ==
  IF ids = {} THEN g
  ELSE LET i == CHOOSE i \in ids : \A j \in ids : i <= j
       IN hydrateLoop(store, updateMetricsForCheck(g, store[i]), ids \ {i})

hydrateMetrics(store) == hydrateLoop(store, << >>, DOMAIN store)

----------------------------------------------------------------------------
(* The webhook report: scheduler.js sendWebhookReport *)

\* checks.filter(c => c.status === s).length
CountStatus(rows, s) ==
  Cardinality({ i \in 1..Len(rows) : rows[i].status = s })

\* downChecks.map(...): name and last ping of each down check, in list order
RECURSIVE DownWidgets(_)
DownWidgets(rows) ==
  IF rows = <<>> THEN <<>>
  ELSE (IF Head(rows).status = "down"
        THEN << [ name |-> Head(rows).name,
                  last_ping_at |-> Head(rows).last_ping_at ] >>
        ELSE <<>>) \o DownWidgets(Tail(rows))

\* the payload: `${total} Checks: ${down} DOWN, ${up} UP, ${maint} MAINT` and
\* the DOWN section
Payload(rows) ==
  [ total |-> Len(rows),
    down |-> CountStatus(rows, "down"),
    up |-> CountStatus(rows, "up"),
    maintenance |-> CountStatus(rows, "maintenance"),
    widgets |-> DownWidgets(rows) ]

----------------------------------------------------------------------------
(* The list cache: cache.js (node-cache) and its use in api/v1/checks.js *)

\* `checks_list_p${page}_l${limit}`
CacheKey(page, limit) == <<"checks_list_p", page, "_l", limit>>

\* mutant: entries never expire
ExpiredNever(entry, t) == FALSE

\* node-cache: an entry with an expiry t (0: none) is expired once t < now
Expired(entry, t) == entry.t # 0 /\ entry.t < t

\* cache.get(key): << entry >>, or <<>> for undefined (absent or expired)
cacheGet(c, key, t) ==
  IF key \in DOMAIN c /\ ~Expired(c[key], t) THEN << c[key] >> ELSE <<>>

\* cache.get(key) deletes the entry it finds expired
cacheEvict(c, key, t) ==
  [ k \in { k \in DOMAIN c : ~(k = key /\ Expired(c[k], t)) } |-> c[k] ]

\* cache.set(key, value, ttl): the entry expires ttl seconds from now; `at`
\* records when the value was read from the store
cacheSet(c, key, value, ttl, t) ==
  (key :> [ v |-> value,
            t |-> IF ttl = 0 THEN 0 ELSE t + ttl * 1000,
            at |-> t ]) @@ c

\* mutant: only the default page is dropped
clearFirstPage(c) ==
  [ k \in { k \in DOMAIN c : k # CacheKey(1, 20) } |-> c[k] ]

\* clearCheckListCache: deletes every key that starts with 'checks_list_p'
clearCheckListCache(c) ==
  [ k \in { k \in DOMAIN c : k[1] # "checks_list_p" } |-> c[k] ]

----------------------------------------------------------------------------
(* Events *)

\* the callback that ran last: the request (op, uuid), the row the token
\* matched when it arrived (found), the cache keys held when it arrived
\* (cached) and the response (code, body)
\* the session store right after the process has started: no session is admin
NoAdmin == [ s \in Sessions |-> FALSE ]

\* the operator has logged in with the secret of the environment
OperatorAuth ==
  [ secret |-> <<"k">>, isAdmin |-> [ s \in Sessions |-> s = "operator" ] ]

\* the authorize hook: request.session.isAdmin
authorize(s) == auth.isAdmin[s]

\* some session passes the hook
Authorized == \E s \in Sessions : authorize(s)

Ev(op, uuid, code, body) ==
  [ op |-> op, uuid |-> uuid, code |-> code, body |-> body,
    found |-> IF uuid = 0 THEN <<>> ELSE getCheckByUuid(checks, uuid),
    cached |-> DOMAIN cache ]

Init ==
  /\ checks = << >>
  /\ nextId = 1
  /\ now = StartSec * MsPerSec
  /\ gauges = << >>
  /\ cache = << >>
  /\ proc = "running"
  /\ event = Ev("start", 0, 0, <<>>)
  /\ accepted = {}
  /\ issued = {}
  /\ auth = OperatorAuth

\* the clock advances
Tick ==
  /\ now + TickMs <= MaxSec * MsPerSec
  /\ now' = now + TickMs
  /\ event' = Ev("tick", 0, 0, <<>>)
  /\ UNCHANGED <<checks, nextId, gauges, accepted, issued, auth, cache, proc>>

\* cron '* * * * *' (and once at start): one run of runStatusChecks; the
\* first conjunct caps the counter at MaxCount
StatusEngine ==
  LET r == runStatusChecks(checks, gauges, now)
  IN /\ proc = "running"
     /\ \A id \in DOMAIN checks : r.store[id].consecutive_down_count <= MaxCount
     /\ checks' = r.store
     /\ gauges' = r.gauges
     /\ event' = Ev("engine", 0, 0, <<>>)
     /\ UNCHANGED <<nextId, now, accepted, issued, auth, cache, proc>>

\* GET /ping/:uuid: what the handler sends for the value recordPing returned
PingReply(updatedCheck) ==
  IF updatedCheck = <<>>
  THEN [ code |-> 404, message |-> "Check not found." ]
  ELSE [ code |-> 200, message |-> "OK" ]

\* GET /ping/:uuid
Ping(uuid, duration) ==
  LET store == recordPing(checks, uuid, duration, now)
      updatedCheck == getCheckByUuid(store, uuid)
  IN /\ proc = "running"
     /\ checks' = store
     /\ IF updatedCheck = <<>>
        THEN /\ event' = Ev("ping", uuid, PingReply(updatedCheck).code, <<>>)
             /\ UNCHANGED <<gauges, accepted>>
        ELSE /\ event' = Ev("ping", uuid, PingReply(updatedCheck).code,
                             updatedCheck)
             /\ IF updatedCheck[1].status # "maintenance"
                THEN /\ gauges' = updateMetricsForCheck(gauges, updatedCheck[1])
                     /\ accepted' = accepted \cup {updatedCheck[1].id}
                ELSE UNCHANGED <<gauges, accepted>>
     /\ UNCHANGED <<nextId, now, cache, proc, issued, auth>>

\* The admin routes below are the handlers as they run for a request of a
\* session that passes the authorize hook; Unauthorized is the hook's reply
\* to any other request.

\* POST /checks
PostCheck(name, schedule, grace) ==
  /\ proc = "running"
  /\ Authorized
  /\ nextId <= MaxChecks
  /\ LET store == createCheck(checks, nextId, name, schedule, grace, now)
         newCheck == store[nextId]
     IN /\ checks' = store
        /\ gauges' = updateMetricsForCheck(gauges, newCheck)
        /\ event' = Ev("create", newCheck.uuid, 201, <<newCheck>>)
  /\ cache' = clearCheckListCache(cache)
  /\ nextId' = nextId + 1
  /\ issued' = issued \cup {Uuid(nextId)}
  /\ UNCHANGED <<now, accepted, proc, auth>>

\* DELETE /checks/:uuid
DeleteCheck(uuid) ==
  LET checkToDelete == getCheckByUuid(checks, uuid)
  IN /\ proc = "running"
     /\ Authorized
     /\ IF checkToDelete = <<>>
        THEN /\ event' = Ev("delete", uuid, 404, <<>>)
             /\ UNCHANGED <<checks, gauges, cache>>
        ELSE /\ checks' = deleteCheck(checks, uuid)
             /\ gauges' = removeMetricsForCheck(gauges, checkToDelete[1])
             /\ cache' = clearCheckListCache(cache)
             /\ event' = Ev("delete", uuid, 204, <<>>)
     /\ UNCHANGED <<nextId, now, accepted, issued, auth, proc>>

\* POST /checks/:uuid/fail
PostFail(uuid, reason) ==
  LET store == recordFailure(checks, uuid, reason, now)
      updatedCheck == getCheckByUuid(store, uuid)
  IN /\ proc = "running"
     /\ Authorized
     /\ checks' = store
     /\ IF updatedCheck = <<>>
        THEN /\ event' = Ev("fail", uuid, 404, <<>>)
             /\ UNCHANGED <<gauges, cache>>
        ELSE /\ gauges' = updateMetricsForCheck(gauges, updatedCheck[1])
             /\ cache' = clearCheckListCache(cache)
             /\ event' = Ev("fail", uuid, 200, updatedCheck)
     /\ UNCHANGED <<nextId, now, accepted, issued, auth, proc>>

\* POST /checks/:uuid/maintenance
PostMaintenance(uuid) ==
  LET store == toggleMaintenance(checks, uuid)
      updatedCheck == getCheckByUuid(store, uuid)
  IN /\ proc = "running"
     /\ Authorized
     /\ checks' = store
     /\ IF updatedCheck = <<>>
        THEN /\ event' = Ev("toggle", uuid, 404, <<>>)
             /\ UNCHANGED <<gauges, cache>>
        ELSE /\ gauges' = updateMetricsForCheck(gauges, updatedCheck[1])
             /\ cache' = clearCheckListCache(cache)
             /\ event' = Ev("toggle", uuid, 200, updatedCheck)
     /\ UNCHANGED <<nextId, now, accepted, issued, auth, proc>>

\* GET /checks: the list read through the cache; found is the cache entry
\* that was served, the body holds the list sent
GetChecks(q) ==
  LET page == IF Truthy(q.page) THEN q.page ELSE 1
      limit == IF Truthy(q.limit) THEN q.limit ELSE 20
      cacheKey == CacheKey(page, limit)
      cachedResult == cacheGet(cache, cacheKey, now)
      result == getAllChecks(checks, << [ page |-> page, limit |-> limit ] >>)[1]
  IN /\ proc = "running"
     /\ IF cachedResult # <<>>
        THEN /\ event' = [ Ev("list", 0, 200, << cachedResult[1].v >>)
                             EXCEPT !.found = cachedResult ]
             /\ cache' = cache
        ELSE /\ event' = Ev("list", 0, 200, << result >>)
             /\ cache' = cacheSet(cacheEvict(cache, cacheKey, now),
                                  cacheKey, result, 10, now)
     /\ UNCHANGED <<checks, nextId, now, gauges, accepted, issued, auth, proc>>

\* a long quiet period: the clock advances by IdleMs
Idle ==
  /\ now + IdleMs <= MaxIdleSec * MsPerSec
  /\ now' = now + IdleMs
  /\ event' = Ev("idle", 0, 0, <<>>)
  /\ UNCHANGED <<checks, nextId, gauges, accepted, issued, auth, cache, proc>>

\* start(): setup, hydrateMetrics, the engine's first run, listen
Start ==
  LET r == runStatusChecks(checks, hydrateMetrics(checks), now)
  IN /\ proc = "stopped"
     /\ \A id \in DOMAIN checks : r.store[id].consecutive_down_count <= MaxCount
     /\ checks' = r.store
     /\ gauges' = r.gauges
     /\ cache' = << >>
     /\ proc' = "running"
     /\ event' = Ev("start", 0, 0, <<>>)
     /\ UNCHANGED <<nextId, now, accepted, issued, auth>>

\* start() when the store throws on the down write of check `bad` in the
\* engine's first run: the exception reaches start()'s catch, which logs it
\* and calls process.exit(1)
StartThrows(bad) ==
  LET r == runStatusChecksThrows(checks, hydrateMetrics(checks), now, bad)
  IN /\ proc = "stopped"
     /\ bad \in DOMAIN checks
     /\ r.thrown
     /\ checks' = r.store
     /\ gauges' = << >>
     /\ cache' = << >>
     /\ proc' = "stopped"
     /\ event' = Ev("start-throw", checks[bad].uuid, 1, <<>>)
     /\ UNCHANGED <<nextId, now, accepted, issued, auth>>

\* a cron run of runStatusChecks when the store throws on the down write of
\* check `bad`: the exception leaves runStatusChecks for croner, which is not
\* part of this code; the process goes on or ends with it
EngineThrows(bad) ==
  LET r == runStatusChecksThrows(checks, gauges, now, bad)
  IN /\ proc = "running"
     /\ bad \in DOMAIN checks
     /\ r.thrown
     /\ checks' = r.store
     /\ event' = Ev("engine-throw", checks[bad].uuid, 500, <<>>)
     /\ \/ /\ proc' = "running" /\ gauges' = r.gauges /\ cache' = cache
           /\ auth' = auth
        \/ /\ proc' = "stopped" /\ gauges' = << >> /\ cache' = << >>
           /\ auth' = [ auth EXCEPT !.isAdmin = NoAdmin ]
     /\ UNCHANGED <<nextId, now, accepted, issued>>

\* mutant: the firing marks every check as reported
NotifyMarksReported(url, delivery) ==
  /\ proc = "running"
  /\ checks' = [ id \in DOMAIN checks |->
                   [ checks[id] EXCEPT !.last_error = "reported" ] ]
  /\ event' = Ev("notify", 0, 500, <<>>)
  /\ UNCHANGED <<nextId, now, gauges, accepted, issued, auth, cache, proc>>

\* one firing of sendWebhookReport: code 0 when WEBHOOK_URL is unset, 500
\* when loading the checks throws (the promise rejects into croner), 200 and
\* 502 for a delivered and an undelivered report
Notify(url, delivery) ==
  LET loaded == getAllChecks(checks, <<>>)
  IN /\ proc = "running"
     /\ IF url = NullText
        THEN /\ event' = Ev("notify", 0, 0, <<>>)
             /\ UNCHANGED <<gauges, cache, proc, auth>>
        ELSE IF loaded = <<>>
        THEN /\ event' = Ev("notify", 0, 500, <<>>)
             /\ \/ UNCHANGED <<gauges, cache, proc, auth>>
                \/ /\ proc' = "stopped" /\ gauges' = << >> /\ cache' = << >>
                   /\ auth' = [ auth EXCEPT !.isAdmin = NoAdmin ]
        ELSE /\ event' = Ev("notify", 0,
                             IF delivery = "ok" THEN 200 ELSE 502,
                             << Payload(loaded[1].checks) >>)
             /\ UNCHANGED <<gauges, cache, proc, auth>>
     /\ UNCHANGED <<checks, nextId, now, accepted, issued>>

\* Buffer.from(str, 'utf8'): the bytes of each code unit; a lone surrogate
\* is encoded as the replacement character
Utf8Unit(c) ==
  CASE c = "k" -> <<107>>
    [] c = "x" -> <<120>>
    [] c = "U+FFFD" -> <<239, 191, 189>>
    [] c = "U+D800" -> <<239, 191, 189>>

RECURSIVE BufferFrom(_)
BufferFrom(str) ==
  IF str = <<>> THEN <<>> ELSE Utf8Unit(Head(str)) \o BufferFrom(Tail(str))

\* crypto.timingSafeEqual on buffers of equal length
timingSafeEqual(a, b) == \A i \in 1..Len(a) : a[i] = b[i]

\* the reply of POST /session/login for a body secret
LoginCode(secret, expectedSecret) ==
  IF secret = <<>> \/ ~IsString(secret) \/ expectedSecret = <<>> THEN 400
  ELSE LET secretBuffer == BufferFrom(secret)
           expectedBuffer == BufferFrom(expectedSecret)
       IN IF Len(secretBuffer) # Len(expectedBuffer)
             \/ ~timingSafeEqual(secretBuffer, expectedBuffer)
          THEN 401
          ELSE 200

\* POST /session/login
Login(s, secret) ==
  LET code == LoginCode(secret, auth.secret)
  IN /\ proc = "running"
     /\ event' = Ev("login", 0, code, << [ session |-> s, secret |-> secret ] >>)
     /\ auth' = IF code = 200 THEN [ auth EXCEPT !.isAdmin[s] = TRUE ] ELSE auth
     /\ UNCHANGED <<checks, nextId, now, gauges, accepted, cache, proc, issued>>

\* POST /session/logout: the session is destroyed
Logout(s) ==
  /\ proc = "running"
  /\ event' = Ev("logout", 0, 204, << [ session |-> s ] >>)
  /\ auth' = [ auth EXCEPT !.isAdmin[s] = FALSE ]
  /\ UNCHANGED <<checks, nextId, now, gauges, accepted, cache, proc, issued>>

\* the authorize hook turns a request away: 401, no handler runs
Unauthorized(op, uuid) ==
  /\ proc = "running"
  /\ event' = Ev(op, uuid, 401, <<>>)
  /\ UNCHANGED <<checks, nextId, now, gauges, accepted, cache, proc, issued,
                 auth>>

Next ==
  \/ Tick
  \/ StatusEngine
  \/ \E u \in Tokens, d \in DurationInputs : Ping(u, d)
  \/ \E b \in BodyInputs : PostCheck(b.name, b.schedule, b.grace)
  \/ \E u \in Tokens : DeleteCheck(u)
  \/ \E u \in Tokens, r \in ReasonInputs : PostFail(u, r)
  \/ \E u \in Tokens : PostMaintenance(u)

Spec == Init /\ [][Next]_vars

\* the bodies with well-formed durations
ListBodies == { b \in BodyInputs : parseDuration(b.schedule) > 0 }

\* the service with its list reads, over quiet periods as long as the TTL;
\* the pings carry no duration and the bodies well-formed durations
ListNext ==
  \/ Idle
  \/ StatusEngine
  \/ \E q \in QueryInputs : GetChecks(q)
  \/ \E u \in Tokens : Ping(u, NULL)
  \/ \E b \in ListBodies : PostCheck(b.name, b.schedule, b.grace)
  \/ \E u \in Tokens : DeleteCheck(u)
  \/ \E u \in Tokens, r \in ReasonInputs : PostFail(u, r)
  \/ \E u \in Tokens : PostMaintenance(u)

ListSpec == Init /\ [][ListNext]_vars

\* a maintenance toggle sent while the counter of the check is below MaxCount,
\* which keeps every counter within MaxCount without holding the engine back
ToggleBelowCap(uuid) ==
  /\ \A id \in IdsByUuid(checks, uuid) :
       checks[id].consecutive_down_count < MaxCount
  /\ PostMaintenance(uuid)

\* a create sent while no check is stored
PostCheckAlone(name, schedule, grace) ==
  DOMAIN checks = {} /\ PostCheck(name, schedule, grace)

\* the service with its cron job firing again and again: croner runs
\* runStatusChecks every minute for as long as the process runs; the clients
\* keep one check at a time, created with well-formed durations
LiveNext ==
  \/ Tick
  \/ StatusEngine
  \/ \E u \in Tokens : Ping(u, NULL)
  \/ \E b \in ListBodies : PostCheckAlone(b.name, b.schedule, b.grace)
  \/ \E u \in Tokens : DeleteCheck(u)
  \/ \E u \in Tokens, r \in ReasonInputs : PostFail(u, r)
  \/ \E u \in Tokens : ToggleBelowCap(u)

LiveSpec == Init /\ [][LiveNext]_vars /\ WF_vars(StatusEngine)

\* the characters the duration strings are drawn from
DurationChars == { "0", "1", "2", "m", "s", "h", "d", "-", " ", "x" }

\* the largest integer of the model checker's arithmetic
MaxInt == 2^30 + (2^30 - 1)

\* the strings of at most MaxLen characters whose leading number, taken in
\* days, stays within the checker's integers
DurationStrings ==
  { s \in UNION { [1..k -> DurationChars] : k \in 0..MaxLen } :
      ParseInt(SubSeq(s, 1, DigitPrefixLen(s)))
        <= MaxInt \div (24 * 60 * 60 * 1000) }

\* a value is about to be handed to parseDuration
ParseInit ==
  /\ checks = << >>
  /\ nextId = 1
  /\ now = StartSec * MsPerSec
  /\ gauges = << >>
  /\ cache = << >>
  /\ proc = "stopped"
  /\ \E v \in DurationStrings \cup NonStrings :
       event = Ev("duration", 0, NULL, v)
  /\ accepted = {}
  /\ issued = {}
  /\ auth = [ OperatorAuth EXCEPT !.isAdmin = NoAdmin ]

\* parseDuration(durationStr) is called and returns
CallParseDuration ==
  /\ event.op = "duration"
  /\ event' = [ event EXCEPT !.op = "parsed",
                             !.code = parseDuration(event.body) ]
  /\ UNCHANGED <<checks, nextId, now, gauges, accepted,
                 issued, auth, cache, proc>>

ParseNext == CallParseDuration

ParseSpec == ParseInit /\ [][ParseNext]_vars

\* the body the checks of the earlier run were created with
BatchBody == CHOOSE b \in BodyInputs : parseDuration(b.schedule) > 0

\* the process is about to start on a database that holds BatchSize checks,
\* created at StartSec and never pinged
BatchInit ==
  /\ checks = [ id \in 1..BatchSize |->
                  NewRow(id, BatchBody.name, BatchBody.schedule,
                         BatchBody.grace, StartSec * MsPerSec) ]
  /\ nextId = BatchSize + 1
  /\ now = StartSec * MsPerSec
  /\ gauges = << >>
  /\ cache = << >>
  /\ proc = "stopped"
  /\ event = Ev("stopped", 0, 0, <<>>)
  /\ accepted = {}
  /\ issued = { Uuid(id) : id \in 1..BatchSize }
  /\ auth = [ OperatorAuth EXCEPT !.isAdmin = NoAdmin ]

\* requests whose token matches no check: it was never given to a check, or
\* its check has been deleted
PingMiss(uuid) == getCheckByUuid(checks, uuid) = <<>> /\ Ping(uuid, NULL)

FailMiss(uuid, reason) ==
  getCheckByUuid(checks, uuid) = <<>> /\ PostFail(uuid, reason)

MaintenanceMiss(uuid) ==
  getCheckByUuid(checks, uuid) = <<>> /\ PostMaintenance(uuid)

\* POST /checks on the database of the earlier run: one more check is created
PostCheckLate(name, schedule, grace) ==
  /\ proc = "running"
  /\ Authorized
  /\ nextId <= BatchSize + 1
  /\ LET store == createCheck(checks, nextId, name, schedule, grace, now)
         newCheck == store[nextId]
     IN /\ checks' = store
        /\ gauges' = updateMetricsForCheck(gauges, newCheck)
        /\ event' = Ev("create", newCheck.uuid, 201, <<newCheck>>)
  /\ cache' = clearCheckListCache(cache)
  /\ nextId' = nextId + 1
  /\ issued' = issued \cup {Uuid(nextId)}
  /\ UNCHANGED <<now, accepted, proc, auth>>

\* the process life cycle, the two periodic jobs with a store that may throw,
\* creates, deletes, and the requests that match no check
BatchNext ==
  \/ Tick
  \/ Start
  \/ Login("operator", auth.secret)
  \/ \E bad \in 1..BatchSize : StartThrows(bad)
  \/ StatusEngine
  \/ \E bad \in 1..BatchSize : EngineThrows(bad)
  \/ \E url \in WebhookInputs, delivery \in DeliveryInputs : Notify(url, delivery)
  \/ \E b \in BodyInputs : PostCheckLate(b.name, b.schedule, b.grace)
  \/ \E u \in BatchTokens : DeleteCheck(u)
  \/ \E u \in BatchTokens : PingMiss(u)
  \/ \E u \in BatchTokens, r \in ReasonInputs : FailMiss(u, r)
  \/ \E u \in BatchTokens : MaintenanceMiss(u)

BatchSpec == BatchInit /\ [][BatchNext]_vars

\* the service has started with some ADMIN_SECRET, or none, in its
\* environment; no session has logged in yet
AuthInit ==
  /\ checks = << >>
  /\ nextId = 1
  /\ now = StartSec * MsPerSec
  /\ gauges = << >>
  /\ cache = << >>
  /\ proc = "running"
  /\ event = Ev("start", 0, 0, <<>>)
  /\ accepted = {}
  /\ issued = {}
  /\ \E e \in EnvInputs : auth = [ secret |-> e, isAdmin |-> NoAdmin ]

\* the admin routes as requested by session s: the authorize hook, then the
\* handler
AdminPostCheck(s, name, schedule, grace) ==
  IF authorize(s) THEN PostCheck(name, schedule, grace)
  ELSE Unauthorized("create", 0)

AdminDeleteCheck(s, uuid) ==
  IF authorize(s) THEN DeleteCheck(uuid) ELSE Unauthorized("delete", uuid)

AdminPostFail(s, uuid, reason) ==
  IF authorize(s) THEN PostFail(uuid, reason) ELSE Unauthorized("fail", uuid)

AdminPostMaintenance(s, uuid) ==
  IF authorize(s) THEN PostMaintenance(uuid)
  ELSE Unauthorized("toggle", uuid)

\* the first page of the list
FirstPage == [ page |-> NULL, limit |-> NULL ]

\* logins, logouts and admin requests of every session, pings and list reads
AuthNext ==
  \/ \E s \in Sessions, secret \in SecretInputs : Login(s, secret)
  \/ \E s \in Sessions : Logout(s)
  \/ \E s \in Sessions, b \in ListBodies :
       AdminPostCheck(s, b.name, b.schedule, b.grace)
  \/ \E s \in Sessions, u \in Tokens : AdminDeleteCheck(s, u)
  \/ \E s \in Sessions, u \in Tokens, r \in ReasonInputs :
       AdminPostFail(s, u, r)
  \/ \E s \in Sessions, u \in Tokens : AdminPostMaintenance(s, u)
  \/ \E u \in Tokens : Ping(u, NULL)
  \/ GetChecks(FirstPage)

AuthSpec == AuthInit /\ [][AuthNext]_vars

\* the down write of an engine run (data.setCheckDown(check.id) and the
\* metrics update that follows it) for a check whose row has been deleted
\* since the run loaded its batch
StaleSetDown(id) ==
  LET updated == setCheckDown(checks, id)
  IN /\ proc = "running"
     /\ id \in 1..(nextId - 1)
     /\ id \notin DOMAIN checks
     /\ checks' = updated
     /\ gauges' = IF id \in DOMAIN updated
                  THEN updateMetricsForCheck(gauges, updated[id])
                  ELSE gauges
     /\ event' = Ev("stale-down", Uuid(id), 0, <<>>)
     /\ UNCHANGED <<nextId, now, accepted, cache, proc, issued, auth>>

\* BatchSpec with down writes that arrive after a delete
StaleNext ==
  \/ BatchNext
  \/ \E id \in 1..(BatchSize + 1) : StaleSetDown(id)

StaleSpec == BatchInit /\ [][StaleNext]_vars

----------------------------------------------------------------------------
(* Claims *)

\* the deadline as the claims state it: the reference second (created_at of a
\* 'new' check, last_ping_at of any other) plus schedule plus grace, in ms
ClaimReference(c) == IF c.status = "new" THEN c.created_at ELSE c.last_ping_at

ClaimDeadline(c) ==
  ClaimReference(c) * 1000 + parseDuration(c.schedule) + parseDuration(c.grace)

\* C1: a Status Engine run sets every evaluated check (not in maintenance, with
\* a reference time) that is past its deadline and not already down to down
\* and adds exactly 1 to consecutive_down_count; a check with now <= deadline,
\* now == deadline included, is left as it is.
C1_EngineMarksOverdueDown ==
  [][ StatusEngine =>
        \A id \in DOMAIN checks :
          LET c == checks[id]
          IN (c.status # "maintenance" /\ ClaimReference(c) # NULL) =>
               /\ (now > ClaimDeadline(c) /\ c.status # "down") =>
                    checks'[id] =
                      [ c EXCEPT !.status = "down",
                                 !.consecutive_down_count =
                                   c.consecutive_down_count + 1 ]
               /\ (now <= ClaimDeadline(c)) => checks'[id] = c ]_vars

\* C1 witness: an engine run has just marked a never-pinged check with
\* well-formed durations down, with count 1, one tick after its deadline
C1_Witness ==
  /\ event.op = "engine"
  /\ \E id \in DOMAIN checks :
       /\ checks[id].status = "down"
       /\ checks[id].consecutive_down_count = 1
       /\ checks[id].last_ping_at = NULL
       /\ parseDuration(checks[id].schedule) > 0
       /\ now = checks[id].created_at * 1000
                  + parseDuration(checks[id].schedule)
                  + parseDuration(checks[id].grace) + TickMs

\* the stored row of the token of the last event, when there is one
EventRow == getCheckByUuid(checks, event.uuid)

\* C2: recordPing on an existing check that is not in maintenance yields
\* status up, consecutive_down_count 0, last_error null, last_ping_at = now
\* (in seconds) and last_ping_duration_ms = the supplied duration or null,
\* whatever the prior status and counter, and returns the updated record.
C2_AcceptedPingSetsUp ==
  [][ \A u \in Tokens, d \in DurationInputs :
        Ping(u, d) =>
          \A id \in DOMAIN checks :
            (checks[id].uuid = u /\ checks[id].status # "maintenance") =>
              /\ checks'[id] =
                   [ checks[id] EXCEPT !.status = "up",
                                       !.consecutive_down_count = 0,
                                       !.last_error = NullText,
                                       !.last_ping_at = now \div 1000,
                                       !.last_ping_duration_ms = d ]
              /\ event'.code = 200
              /\ event'.body = << checks'[id] >> ]_vars

\* C2 witness (scenario B): a ping with a duration has just been accepted for a
\* check that was down with a non-zero counter
C2_Witness ==
  /\ event.op = "ping" /\ event.code = 200
  /\ event.found # <<>>
  /\ event.found[1].status = "down"
  /\ event.found[1].consecutive_down_count >= 1
  /\ EventRow # <<>>
  /\ EventRow[1].status = "up"
  /\ EventRow[1].consecutive_down_count = 0
  /\ EventRow[1].last_ping_at = NowSec
  /\ EventRow[1].last_ping_duration_ms = 7

\* C3: recordPing on a check in maintenance leaves every field of the record
\* unchanged and returns the unchanged record.
C3_MaintenancePingIsNoOp ==
  (/\ event.op = "ping"
   /\ event.found # <<>>
   /\ event.found[1].status = "maintenance")
  => /\ event.code = 200
     /\ event.body = event.found
     /\ EventRow = event.found

\* C3 witness: a ping with a duration has just been answered for a check in
\* maintenance that carries a non-zero counter and no ping time
C3_Witness ==
  /\ event.op = "ping" /\ event.code = 200
  /\ event.found # <<>>
  /\ event.found[1].status = "maintenance"
  /\ event.found[1].consecutive_down_count >= 1
  /\ event.found[1].last_ping_at = NULL
  /\ EventRow = event.found

\* C4: the engine's down write is never applied to a check that, by its stored
\* reference time at the moment of the write, is not overdue: a ping wholly
\* precedes or wholly follows the engine's evaluation of its check.
C4_DownWriteOnlyWhenStoredOverdue ==
  [][ \A id \in DOMAIN checks :
        (/\ id \in DOMAIN checks'
         /\ checks'[id].status = "down"
         /\ checks[id].status # "down")
        => /\ event'.op = "engine"
           /\ ClaimReference(checks[id]) # NULL
           /\ now > ClaimDeadline(checks[id])
           /\ checks'[id].last_ping_at = checks[id].last_ping_at ]_vars

\* C4 witness: the engine has marked down a check whose accepted ping is past
\* its deadline (the ping wholly preceded the evaluation)
C4_Witness ==
  /\ event.op = "engine"
  /\ \E id \in DOMAIN checks :
       /\ id \in accepted
       /\ checks[id].status = "down"
       /\ checks[id].consecutive_down_count = 1
       /\ checks[id].last_ping_at # NULL
       /\ now > ClaimDeadline(checks[id])

\* C5: a Status Engine run never changes any field of a check whose stored
\* status is maintenance.
C5_EngineSkipsMaintenance ==
  [][ StatusEngine =>
        \A id \in DOMAIN checks :
          checks[id].status = "maintenance" =>
            /\ checks'[id] = checks[id]
            /\ gauges'[checks[id].uuid] = gauges[checks[id].uuid] ]_vars

\* C5 witness: the engine has run over a check in maintenance whose last ping
\* is past its deadline, and the check is still in maintenance
C5_Witness ==
  /\ event.op = "engine"
  /\ \E id \in DOMAIN checks :
       /\ checks[id].status = "maintenance"
       /\ checks[id].last_ping_at # NULL
       /\ now > ClaimDeadline(checks[id])

\* C6: the status read and the conditional write of recordPing are one atomic
\* step against toggleMaintenance: no ping step changes a row whose stored
\* status is maintenance, and a ping and a toggle of one token end in one of
\* the two serial outcomes: toggle then ignored ping (row as the toggle left
\* it), or ping then toggle (the ping's row, with status maintenance).
C6_PingToggleSerial ==
  [][ /\ \A id \in DOMAIN checks :
           (event'.op = "ping" /\ checks[id].status = "maintenance") =>
             (id \in DOMAIN checks' /\ checks'[id] = checks[id])
      /\ (/\ event.op = "toggle" /\ event.code = 200
          /\ event.body[1].status = "maintenance"
          /\ event'.op = "ping" /\ event'.uuid = event.uuid)
         => /\ checks' = checks
            /\ event'.body = event.body
      /\ (/\ event.op = "ping" /\ event.code = 200
          /\ event.body[1].status = "up"
          /\ event'.op = "toggle" /\ event'.uuid = event.uuid)
         => /\ event'.body =
                 << [ event.body[1] EXCEPT !.status = "maintenance" ] >>
            /\ getCheckByUuid(checks', event.uuid) = event'.body ]_vars

\* C6 witness: a ping has just been ignored for a check that had a ping
\* accepted before it was put into maintenance
C6_Witness ==
  /\ event.op = "ping" /\ event.code = 200
  /\ event.found # <<>>
  /\ event.found[1].status = "maintenance"
  /\ event.found[1].id \in accepted
  /\ event.found[1].last_ping_at # NULL
  /\ EventRow = event.found

\* C7: a Status Engine run leaves every check that is already down unchanged:
\* the counter is not incremented again and last_ping_at is not changed, over
\* any number of runs with only the clock advancing in between.
C7_DownStaysAsIs ==
  [][ (StatusEngine \/ Tick) =>
        \A id \in DOMAIN checks :
          checks[id].status = "down" =>
            (id \in DOMAIN checks' /\ checks'[id] = checks[id]) ]_vars

\* C7 witness: the engine has run two ticks after the deadline of a down,
\* never-pinged check whose counter is still 1
C7_Witness ==
  /\ event.op = "engine"
  /\ \E id \in DOMAIN checks :
       /\ checks[id].status = "down"
       /\ checks[id].consecutive_down_count = 1
       /\ checks[id].last_ping_at = NULL
       /\ id \notin accepted
       /\ now >= checks[id].created_at * 1000
                   + parseDuration(checks[id].schedule)
                   + parseDuration(checks[id].grace) + 2 * TickMs

\* C8: recordFailure on an existing check in any status, maintenance included,
\* sets status = failed, last_ping_at = now (in seconds), last_error = the
\* given reason and consecutive_down_count = 0, and returns that record.
C8_FailureOverridesAnyStatus ==
  [][ \A u \in Tokens, r \in ReasonInputs :
        PostFail(u, r) =>
          \A id \in DOMAIN checks :
            checks[id].uuid = u =>
              /\ checks'[id] =
                   [ checks[id] EXCEPT !.status = "failed",
                                       !.last_ping_at = now \div 1000,
                                       !.last_error = r,
                                       !.consecutive_down_count = 0 ]
              /\ event'.code = 200
              /\ event'.body = << checks'[id] >> ]_vars

\* C8 witness (scenario C): a failure report with reason "manual" has just
\* turned a check in maintenance with a non-zero counter into failed
C8_Witness ==
  /\ event.op = "fail" /\ event.code = 200
  /\ event.found # <<>>
  /\ event.found[1].status = "maintenance"
  /\ event.found[1].consecutive_down_count >= 1
  /\ EventRow # <<>>
  /\ EventRow[1].status = "failed"
  /\ EventRow[1].last_error = "manual"
  /\ EventRow[1].consecutive_down_count = 0
  /\ EventRow[1].last_ping_at = NowSec

\* C9 (as claimed): two toggleMaintenance calls in a row on a check that is not
\* in maintenance yield status up if the check has had a ping accepted, and
\* status new if it has not.
C9_ToggleTwiceByPingHistory ==
  [][ (/\ event.op = "toggle" /\ event.code = 200
       /\ event.found[1].status # "maintenance"
       /\ event'.op = "toggle" /\ event'.code = 200
       /\ event'.uuid = event.uuid
       /\ event'.found = event.body)
      => event'.body[1].status =
           (IF event.found[1].id \in accepted THEN "up" ELSE "new") ]_vars

\* C10 (as claimed): in every reachable state a check with status up has had
\* at least one ping accepted.
C10_UpOnlyAfterAcceptedPing ==
  \A id \in DOMAIN checks : checks[id].status = "up" => id \in accepted

\* C11: toggleMaintenance on an existing check writes only the status field:
\* maintenance for a check not in maintenance; for a check in maintenance, up
\* if last_ping_at is set and new otherwise.  Every other field keeps its value.
C11_ToggleWritesOnlyStatus ==
  (event.op = "toggle" /\ event.found # <<>>)
  => LET c == event.found[1]
         s == IF c.status # "maintenance" THEN "maintenance"
              ELSE IF c.last_ping_at # NULL THEN "up" ELSE "new"
     IN /\ event.code = 200
        /\ event.body = << [ c EXCEPT !.status = s ] >>
        /\ EventRow = event.body

\* C11 witness: a toggle has just taken a never-pinged check with a non-zero
\* counter out of maintenance: status new, counter kept
C11_Witness ==
  /\ event.op = "toggle" /\ event.code = 200
  /\ event.found # <<>>
  /\ event.found[1].status = "maintenance"
  /\ event.found[1].consecutive_down_count >= 1
  /\ EventRow # <<>>
  /\ EventRow[1].status = "new"
  /\ EventRow[1].consecutive_down_count = event.found[1].consecutive_down_count

\* C12 (as claimed): while a check stays down its counter never decreases, and
\* a non-zero counter becomes 0 only in a step that accepts a ping.
C12_CounterResetOnlyByPing ==
  [][ \A id \in DOMAIN checks \cap DOMAIN checks' :
        /\ (checks[id].status = "down" /\ checks'[id].status = "down") =>
             checks'[id].consecutive_down_count
               >= checks[id].consecutive_down_count
        /\ (checks[id].consecutive_down_count > 0
            /\ checks'[id].consecutive_down_count = 0) =>
             (event'.op = "ping" /\ event'.code = 200
              /\ event'.uuid = checks[id].uuid) ]_vars

\* C12 (amended): while a check stays down its counter never decreases; the
\* counter is reset to 0 by every accepted ping and by every failure report,
\* and no other operation sets a non-zero counter to 0.
C12_CounterResetByPingOrFailure ==
  [][ \A id \in DOMAIN checks \cap DOMAIN checks' :
        /\ (checks[id].status = "down" /\ checks'[id].status = "down") =>
             checks'[id].consecutive_down_count
               >= checks[id].consecutive_down_count
        /\ (checks[id].consecutive_down_count > 0
            /\ checks'[id].consecutive_down_count = 0) =>
             (event'.op \in {"ping", "fail"} /\ event'.code = 200
              /\ event'.uuid = checks[id].uuid)
        /\ (event'.op \in {"ping", "fail"} /\ event'.uuid = checks[id].uuid
            /\ checks[id].status # "maintenance") =>
             checks'[id].consecutive_down_count = 0
        /\ (event'.op = "fail" /\ event'.uuid = checks[id].uuid) =>
             checks'[id].consecutive_down_count = 0 ]_vars

\* C12 witness: a failure report has just reset the non-zero counter of a down
\* check
C12_Witness ==
  /\ event.op = "fail" /\ event.code = 200
  /\ event.found # <<>>
  /\ event.found[1].status = "down"
  /\ event.found[1].consecutive_down_count >= 1
  /\ EventRow # <<>>
  /\ EventRow[1].consecutive_down_count = 0

\* the list keys of the cache, and the list GET /checks would read now
ListKeys(c) == { k \in DOMAIN c : k[1] = "checks_list_p" }

CurrentList(meta) ==
  getAllChecks(checks, << [ page |-> meta.page, limit |-> meta.limit ] >>)

\* C18 (as claimed): after an accepted ping (200 for a check that is not in
\* maintenance) no checks_list cache entry stored before the ping remains.
C18_AcceptedPingClearsListCache ==
  (/\ event.op = "ping" /\ event.code = 200
   /\ event.found # <<>>
   /\ event.found[1].status # "maintenance")
  => ListKeys(cache) = {}

\* C19: once a successful create, delete, maintenance toggle or failure report
\* has returned, no checks_list cache entry remains, whatever its page and
\* limit, and a list read that finds no entry sends the list as stored.
C19_AdminMutationClearsListCache ==
  /\ (event.op \in {"create", "delete", "toggle", "fail"}
      /\ event.code \in {200, 201, 204})
     => ListKeys(cache) = {}
  /\ (event.op = "list" /\ event.found = <<>>)
     => << event.body[1] >> = CurrentList(event.body[1].meta)

\* C19 witness: a delete has just succeeded while entries for both pages were
\* cached, and none is left
C19_Witness ==
  /\ event.op = "delete" /\ event.code = 204
  /\ Cardinality(event.cached) = 2
  /\ ListKeys(cache) = {}

\* C20: GET /checks sends either the list as stored now, or a cached entry
\* that was read from the store at most standardTTL (10) seconds ago.
C20_ListAtMostTtlOld ==
  (event.op = "list")
  => \/ /\ event.found = <<>>
        /\ << event.body[1] >> = CurrentList(event.body[1].meta)
     \/ /\ event.found # <<>>
        /\ event.body[1] = event.found[1].v
        /\ now - event.found[1].at <= standardTTL * 1000
        /\ now - event.found[1].at >= 0

\* C20 witness: a list read has just served an entry stored exactly 10 s
\* earlier, which no longer matches the store (a ping or an engine run
\* changed the check in between)
C20_Witness ==
  /\ event.op = "list" /\ event.found # <<>>
  /\ now - event.found[1].at = standardTTL * 1000
  /\ << event.body[1] >> # CurrentList(event.body[1].meta)

\* C13: recordPing, recordFailure and toggleMaintenance on a token that
\* matches no check (never given to a check, or its check deleted) answer
\* not-found and change no record of the store, nor any gauge.
C13_UnknownTokenChangesNothing ==
  [][ \A u \in BatchTokens :
        (/\ getCheckByUuid(checks, u) = <<>>
         /\ \/ PingMiss(u)
            \/ \E r \in ReasonInputs : FailMiss(u, r)
            \/ MaintenanceMiss(u))
        => /\ checks' = checks
           /\ gauges' = gauges
           /\ event'.code = 404
           /\ event'.body = <<>> ]_vars

\* C13 witness: a failure report for the token of a deleted check has just
\* been answered 404 while another check is stored
C13_Witness ==
  /\ event.op = "fail" /\ event.code = 404
  /\ event.uuid = Uuid(1)
  /\ 1 \notin DOMAIN checks
  /\ DOMAIN checks # {}

\* a check the engine has to mark down at this moment, as the claims state it
ClaimOverdue(c) ==
  /\ c.status \notin {"maintenance", "down"}
  /\ ClaimReference(c) # NULL
  /\ now > ClaimDeadline(c)

\* C14 (as claimed): a storage failure on the down write of one check does not
\* abort the engine run: after the run every other check of the batch has been
\* evaluated, so none of them is still overdue and not down.
C14_FailureDoesNotAbortRun ==
  (event.op = "engine-throw")
  => \A id \in DOMAIN checks :
       checks[id].uuid # event.uuid => ~ClaimOverdue(checks[id])

\* C15 (as claimed, for the run made at process start): a storage failure
\* during a Status Engine run is caught and logged and the process keeps
\* running.
C15_StartupRunFailureKeepsProcess ==
  (event.op = "start-throw") => proc = "running"

\* C16 (as claimed): a firing with the webhook configured hands over a summary
\* of all stored checks: total = number of stored checks, the per-status
\* counts add up to the total, the down list is exactly the down checks.
C16_FiringSummarizesAllChecks ==
  (event.op = "notify" /\ event.code # 0)
  => /\ event.body # <<>>
     /\ LET p == event.body[1]
            downNames == { checks[id].name :
                             id \in { i \in DOMAIN checks :
                                        checks[i].status = "down" } }
        IN /\ p.total = Cardinality(DOMAIN checks)
           /\ p.down + p.up + p.maintenance = p.total
           /\ { p.widgets[i].name : i \in 1..Len(p.widgets) } = downNames
           /\ Len(p.widgets) = p.down

C21_GaugesMatchStore ==
  /\ DOMAIN gauges = { checks[id].uuid : id \in DOMAIN checks }
  /\ \A id \in DOMAIN checks :
       LET c == checks[id]
       IN /\ gauges[c.uuid].status =
               (CASE c.status = "down" -> 0
                  [] c.status = "up" -> 1
                  [] c.status = "new" -> 2
                  [] c.status = "maintenance" -> 3
                  [] c.status = "failed" -> 4)
          /\ gauges[c.uuid].consecutiveDownCount = c.consecutive_down_count

\* C21 witness: a delete has just removed a check that had gauge values (its
\* row was down with a counted transition), and no gauge is left
C21_Witness ==
  /\ event.op = "delete" /\ event.code = 204
  /\ event.found # <<>>
  /\ event.found[1].status = "down"
  /\ event.found[1].consecutive_down_count >= 1
  /\ DOMAIN gauges = {}

\* C22 (as claimed): the reply to a ping that is ignored because the check is
\* in maintenance differs from the reply the same check would get for an
\* accepted ping.
C22_MaintenanceReplyDiffers ==
  (/\ event.op = "ping"
   /\ event.found # <<>>
   /\ event.found[1].status = "maintenance")
  => PingReply(event.body) # PingReply(<< PingUpdate(event.found[1], now, NULL) >>)

\* C23: every write to last_ping_at stores the clock's second at that moment:
\* in no step does a check's last_ping_at decrease (or go back to null), a
\* changed last_ping_at is the current second, and a set last_ping_at is never
\* earlier than created_at.
C23_LastPingNeverBackdated ==
  [][ \A id \in DOMAIN checks \cap DOMAIN checks' :
        /\ checks'[id].last_ping_at >= checks[id].last_ping_at
        /\ checks'[id].last_ping_at # checks[id].last_ping_at =>
             checks'[id].last_ping_at = now' \div 1000
        /\ checks'[id].last_ping_at # NULL =>
             checks'[id].last_ping_at >= checks'[id].created_at ]_vars

\* C23 witness: an accepted ping has just moved last_ping_at of a check that
\* was pinged before to a later second
C23_Witness ==
  /\ event.op = "ping" /\ event.code = 200
  /\ event.found # <<>>
  /\ event.found[1].last_ping_at # NULL
  /\ EventRow # <<>>
  /\ EventRow[1].last_ping_at > event.found[1].last_ping_at
  /\ EventRow[1].last_ping_at = now \div 1000

\* check id is stored, out of maintenance, and the last request was no ping,
\* failure report, toggle or delete for it
Quiet(id) ==
  /\ id \in DOMAIN checks
  /\ checks[id].status # "maintenance"
  /\ ~(event.op \in {"ping", "fail", "toggle", "delete"}
       /\ event.uuid = Uuid(id))

\* time has advanced past the deadline of check id
TimePast(id) ==
  /\ id \in DOMAIN checks
  /\ ClaimReference(checks[id]) # NULL => now > ClaimDeadline(checks[id])

IsDown(id) == id \in DOMAIN checks /\ checks[id].status = "down"

\* C24: if from some point on a check is stored, out of maintenance, receives
\* no ping, failure report, toggle or delete, and time has advanced past its
\* deadline, then, the engine's runs being scheduled fairly, it eventually is
\* down and stays down.
C24_QuietCheckGoesDown ==
  \A id \in 1..MaxChecks :
    <>[](Quiet(id) /\ TimePast(id)) => <>[]IsDown(id)

\* C24 witness: an engine run has just marked down a check that a failure
\* report had set to failed
C24_Witness ==
  /\ event.op = "engine"
  /\ \E id \in DOMAIN checks :
       /\ checks[id].status = "down"
       /\ checks[id].last_error = "manual"
       /\ checks[id].consecutive_down_count >= 1

\* the status of check id before a step, "none" when it is not stored
StatusBefore(id) == IF id \in DOMAIN checks THEN checks[id].status ELSE "none"

\* C25 (as claimed): every status change is a row of the state-machine table:
\* down only by an engine run on an overdue new, up or failed check; failed
\* only by a failure report; maintenance only by a toggle from another
\* status; up only by an accepted ping or by a toggle out of maintenance of a
\* check with an accepted ping in its history; new only by create or by a
\* toggle out of maintenance of a check without ping history.
C25_StatusChangesFollowTable ==
  [][ \A id \in DOMAIN checks' :
        LET old == StatusBefore(id)
            new == checks'[id].status
            mine == event'.uuid = Uuid(id)
        IN old # new =>
             CASE new = "down" ->
                    /\ event'.op = "engine"
                    /\ old \in {"new", "up", "failed"}
                    /\ ClaimOverdue(checks[id])
               [] new = "failed" -> event'.op = "fail" /\ mine
               [] new = "maintenance" ->
                    event'.op = "toggle" /\ mine /\ old \notin {"none", "maintenance"}
               [] new = "up" ->
                    \/ event'.op = "ping" /\ mine /\ event'.code = 200
                    \/ event'.op = "toggle" /\ mine /\ old = "maintenance"
                         /\ id \in accepted
               [] new = "new" ->
                    \/ event'.op = "create" /\ mine /\ old = "none"
                    \/ event'.op = "toggle" /\ mine /\ old = "maintenance"
                         /\ id \notin accepted
               [] OTHER -> FALSE ]_vars

\* the columns a down write may change
DownColumns == {"status", "consecutive_down_count"}

\* C26: an engine run leaves the row of a check that is not overdue as it is,
\* and on an overdue check it changes only status and consecutive_down_count:
\* last_ping_at, last_ping_duration_ms, last_error, schedule, grace, name,
\* token and created_at keep their values; no row is added or removed.
C26_EngineWritesOnlyStatusAndCount ==
  [][ StatusEngine =>
        /\ DOMAIN checks' = DOMAIN checks
        /\ \A id \in DOMAIN checks :
             IF ClaimOverdue(checks[id])
             THEN \A f \in (DOMAIN checks[id]) \ DownColumns :
                    checks'[id][f] = checks[id][f]
             ELSE checks'[id] = checks[id] ]_vars

\* C26 witness: an engine run has marked down a check that carries the time
\* and the duration of an accepted ping
C26_Witness ==
  /\ event.op = "engine"
  /\ \E id \in DOMAIN checks :
       /\ checks[id].status = "down"
       /\ checks[id].consecutive_down_count = 1
       /\ checks[id].last_ping_duration_ms = 7
       /\ checks[id].last_ping_at # NULL

\* schedule and grace of the check both parse to 0
Malformed(c) == parseDuration(c.schedule) = 0 /\ parseDuration(c.grace) = 0

\* C27: a check whose schedule and grace are both malformed raises no error
\* in the engine and is marked down by the first run whose now is later than
\* its reference time: when a run has completed, no such check out of
\* maintenance is left not down with now later than its reference time.
C27_MalformedCheckMarkedDown ==
  event.op = "engine" =>
    /\ proc = "running"
    /\ \A id \in DOMAIN checks :
         ( /\ Malformed(checks[id])
           /\ checks[id].status # "maintenance"
           /\ ClaimReference(checks[id]) # NULL
           /\ now > ClaimReference(checks[id]) * 1000 )
         => checks[id].status = "down"

\* C27 witness: a run has completed with a malformed check marked down once,
\* less than a second after its reference time
C27_Witness ==
  /\ event.op = "engine"
  /\ \E id \in DOMAIN checks :
       /\ Malformed(checks[id])
       /\ checks[id].status = "down"
       /\ checks[id].consecutive_down_count = 1
       /\ now < (ClaimReference(checks[id]) + 1) * 1000

\* the units of the contract and their millisecond factors
ClaimUnits == { <<"m", "s">>, <<"s">>, <<"m">>, <<"h">>, <<"d">> }

ClaimFactor(u) ==
  CASE u = <<"m", "s">> -> 1
    [] u = <<"s">> -> 1000
    [] u = <<"m">> -> 60000
    [] u = <<"h">> -> 3600000
    [] u = <<"d">> -> 86400000

ClaimDigit ==
  [ c \in {"0", "1", "2", "3", "4", "5", "6", "7", "8", "9"} |->
      CASE c = "0" -> 0 [] c = "1" -> 1 [] c = "2" -> 2 [] c = "3" -> 3
        [] c = "4" -> 4 [] c = "5" -> 5 [] c = "6" -> 6 [] c = "7" -> 7
        [] c = "8" -> 8 [] c = "9" -> 9 ]

\* the number a string of decimal digits denotes, most significant first
RECURSIVE ClaimDecimal(_)
ClaimDecimal(s) ==
  IF s = <<>> THEN 0
  ELSE ClaimDigit[Head(s)] * 10^(Len(s) - 1) + ClaimDecimal(Tail(s))

\* the places k after which v splits into k decimal digits and a unit
ClaimSplits(v) ==
  { k \in 1..(Len(v) - 1) :
      /\ \A i \in 1..k : v[i] \in DOMAIN ClaimDigit
      /\ SubSeq(v, k + 1, Len(v)) \in ClaimUnits }

\* what the contract says parseDuration returns for v
ClaimDuration(v) ==
  IF v \in NonStrings \/ ClaimSplits(v) = {} THEN 0
  ELSE LET k == CHOOSE k \in ClaimSplits(v) : TRUE
       IN ClaimDecimal(SubSeq(v, 1, k)) * ClaimFactor(SubSeq(v, k + 1, Len(v)))

\* C28: parseDuration returns n times the unit's millisecond factor (ms 1,
\* s 1000, m 60000, h 3600000, d 86400000) for a string that is exactly
\* decimal digits n followed by one of ms, s, m, h, d, and returns 0 for every
\* other value: the empty string, a negative number, a missing or unsupported
\* unit, surrounding whitespace, a value that is not a string.
C28_ParseDurationContract ==
  event.op = "parsed" => event.code = ClaimDuration(event.body)

\* C28 witness: a call has returned the minutes of a well-formed string with
\* a leading zero
C28_Witness ==
  /\ event.op = "parsed"
  /\ event.body = <<"0", "2", "m">>
  /\ event.code = 120000

\* C29: deleteCheck removes exactly the record with the given token and
\* leaves every other record unchanged (one row removed, 204 at the API); a
\* delete of a token whose record is gone removes 0 rows at the store, is
\* answered with 404 and changes no record.
C29_DeleteRemovesExactlyOne ==
  [][ \A u \in BatchTokens :
        DeleteCheck(u) =>
          IF getCheckByUuid(checks, u) # <<>>
          THEN /\ deleteCheckChanges(checks, u) = 1
               /\ DOMAIN checks' = DOMAIN checks \ IdsByUuid(checks, u)
               /\ \A id \in DOMAIN checks' : checks'[id] = checks[id]
               /\ getCheckByUuid(checks', u) = <<>>
               /\ event'.code = 204
          ELSE /\ deleteCheckChanges(checks, u) = 0
               /\ checks' = checks
               /\ event'.code = 404 ]_vars

\* C29 witness: the token of a deleted check has been deleted again and
\* answered with 404 while another record is still stored
C29_Witness ==
  /\ event.op = "delete"
  /\ event.code = 404
  /\ \E id \in 1..BatchSize :
       /\ event.uuid = Uuid(id)
       /\ id \notin DOMAIN checks
  /\ DOMAIN checks # {}

\* C30: createCheck adds exactly one record, with a token no stored record
\* has, status new, created_at = now (in seconds), last_ping_at,
\* last_ping_duration_ms and last_error null and consecutive_down_count 0, and
\* changes no record that was stored before.
C30_CreateAddsOneNewRecord ==
  [][ \A b \in BodyInputs :
        PostCheckLate(b.name, b.schedule, b.grace) =>
          /\ nextId \notin DOMAIN checks
          /\ DOMAIN checks' = DOMAIN checks \cup {nextId}
          /\ \A id \in DOMAIN checks : checks'[id] = checks[id]
          /\ LET c == checks'[nextId]
             IN /\ \A id \in DOMAIN checks : checks[id].uuid # c.uuid
                /\ c.name = b.name
                /\ c.schedule = b.schedule
                /\ c.grace = b.grace
                /\ c.status = "new"
                /\ c.created_at = NowSec
                /\ c.last_ping_at = NULL
                /\ c.last_ping_duration_ms = NULL
                /\ c.last_error = NullText
                /\ c.consecutive_down_count = 0
                /\ event'.body = <<c>> ]_vars

\* C30 witness: a check has just been created next to a stored check that the
\* engine had marked down
C30_Witness ==
  /\ event.op = "create"
  /\ event.code = 201
  /\ event.uuid = Uuid(BatchSize + 1)
  /\ (BatchSize + 1) \in DOMAIN checks
  /\ \E id \in 1..BatchSize :
       /\ id \in DOMAIN checks
       /\ checks[id].status = "down"

\* no two stored checks share a token
TokensDistinct ==
  \A i, j \in DOMAIN checks : i # j => checks[i].uuid # checks[j].uuid

\* the token of a check a step has created was never issued before
FreshToken ==
  \A id \in (DOMAIN checks') \ (DOMAIN checks) : checks'[id].uuid \notin issued

ClaimStatuses == {"new", "up", "down", "failed", "maintenance"}

\* C32: in every reachable state the persisted status of every check is one
\* of new, up, down, failed, maintenance.
C32_StatusIsOneOfFive ==
  \A id \in DOMAIN checks : checks[id].status \in ClaimStatuses

\* C32 witness: a failure report has just overwritten the status of a check
\* that was in maintenance
C32_Witness ==
  /\ event.op = "fail"
  /\ event.found # <<>>
  /\ event.found[1].status = "maintenance"
  /\ EventRow # <<>>
  /\ EventRow[1].status = "failed"

\* the reference second of a down check as C33 states it: last_ping_at if
\* set, created_at otherwise
ClaimDownReference(c) ==
  IF c.last_ping_at # NULL THEN c.last_ping_at ELSE c.created_at

\* C33: in every reachable state a check with status down is overdue:
\* now > reference + schedule + grace with reference last_ping_at if set and
\* created_at otherwise (the stored seconds, taken in milliseconds); no check
\* is down while its last_ping_at is still within schedule plus grace.
C33_DownIsOverdue ==
  \A id \in DOMAIN checks :
    checks[id].status = "down" =>
      now > ClaimDownReference(checks[id]) * 1000
              + parseDuration(checks[id].schedule)
              + parseDuration(checks[id].grace)

\* C33 witness: a never-pinged check with well-formed durations is down
\* after an engine run, past created_at + schedule + grace
C33_Witness ==
  /\ event.op = "engine"
  /\ \E id \in DOMAIN checks :
       /\ checks[id].status = "down"
       /\ checks[id].last_ping_at = NULL
       /\ parseDuration(checks[id].schedule) > 0
       /\ parseDuration(checks[id].grace) > 0

\* C34: in every reachable state a check with status up or
\* failed has last_ping_at set, and a check with status new has last_ping_at,
\* last_ping_duration_ms and last_error all null and has never had a ping
\* accepted.
C34_PingColumnsMatchStatus ==
  \A id \in DOMAIN checks :
    /\ checks[id].status \in {"up", "failed"} => checks[id].last_ping_at # NULL
    /\ checks[id].status = "new" =>
         /\ checks[id].last_ping_at = NULL
         /\ checks[id].last_ping_duration_ms = NULL
         /\ checks[id].last_error = NullText
         /\ id \notin accepted

\* C34 witness: a check that was reported failed and never pinged has left
\* maintenance as up, with last_ping_at set by the failure report
C34_Witness ==
  /\ event.op = "toggle"
  /\ event.found # <<>>
  /\ event.found[1].status = "maintenance"
  /\ EventRow # <<>>
  /\ EventRow[1].status = "up"
  /\ EventRow[1].last_ping_at # NULL
  /\ EventRow[1].last_error = "manual"
  /\ EventRow[1].id \notin accepted

\* C35 (as claimed): in every reachable state a check with status up or new
\* has consecutive_down_count = 0.
C35_UpOrNewHasZeroCount ==
  \A id \in DOMAIN checks :
    checks[id].status \in {"up", "new"} =>
      checks[id].consecutive_down_count = 0

\* C35 (amended): an up or new check has a non-zero counter only through
\* leaving maintenance: a step yields an up or new check with a non-zero
\* counter only if the check was in maintenance, or already had that status,
\* with the same counter before the step; create, ping, failure report and
\* engine never yield one.
C35_NonZeroCountOnlyByMaintenanceExit ==
  [][ \A id \in DOMAIN checks' :
        ( /\ checks'[id].status \in {"up", "new"}
          /\ checks'[id].consecutive_down_count # 0 )
        => /\ id \in DOMAIN checks
           /\ checks'[id].consecutive_down_count
                = checks[id].consecutive_down_count
           /\ \/ checks[id].status = "maintenance"
              \/ checks[id].status = checks'[id].status ]_vars

\* C35 witness: a check that had been pinged, went down and was put into
\* maintenance has left maintenance as up with its counter still at 1
C35_Witness ==
  /\ event.op = "toggle"
  /\ event.found # <<>>
  /\ event.found[1].status = "maintenance"
  /\ EventRow # <<>>
  /\ EventRow[1].status = "up"
  /\ EventRow[1].consecutive_down_count = 1
  /\ EventRow[1].id \in accepted

\* C36: in every reachable state a check with status down has
\* consecutive_down_count >= 1 and a check with status failed has
\* consecutive_down_count = 0.
C36_CountMatchesDownAndFailed ==
  \A id \in DOMAIN checks :
    /\ checks[id].status = "down" => checks[id].consecutive_down_count >= 1
    /\ checks[id].status = "failed" => checks[id].consecutive_down_count = 0

\* C36 witness: a failure report has just set a down check with counter 1 to
\* failed with counter 0
C36_Witness ==
  /\ event.op = "fail"
  /\ event.found # <<>>
  /\ event.found[1].status = "down"
  /\ event.found[1].consecutive_down_count = 1
  /\ EventRow # <<>>
  /\ EventRow[1].status = "failed"
  /\ EventRow[1].consecutive_down_count = 0

\* C37: time spent in maintenance does not move the deadline.  A toggle
\* changes neither last_ping_at nor created_at, schedule or grace; a ping to
\* a check in maintenance changes nothing; and an engine run marks every up
\* or new check whose reference + schedule + grace has passed down and adds 1
\* to its counter, a check that left maintenance with a non-zero counter
\* included.
C37_MaintenanceKeepsDeadline ==
  [][ /\ \A u \in Tokens :
           PostMaintenance(u) =>
             \A id \in IdsByUuid(checks, u) :
               /\ checks'[id].last_ping_at = checks[id].last_ping_at
               /\ checks'[id].created_at = checks[id].created_at
               /\ checks'[id].schedule = checks[id].schedule
               /\ checks'[id].grace = checks[id].grace
      /\ \A u \in Tokens, d \in DurationInputs :
           Ping(u, d) =>
             \A id \in IdsByUuid(checks, u) :
               checks[id].status = "maintenance" => checks'[id] = checks[id]
      /\ StatusEngine =>
           \A id \in DOMAIN checks :
             ( /\ checks[id].status \in {"up", "new"}
               /\ now > ClaimDeadline(checks[id]) )
             => /\ checks'[id].status = "down"
                /\ checks'[id].consecutive_down_count
                     = checks[id].consecutive_down_count + 1 ]_vars

\* C37 witness: a pinged check that went down, spent time in maintenance and
\* left it after its deadline has been marked down again, counter at 2
C37_Witness ==
  /\ event.op = "engine"
  /\ \E id \in DOMAIN checks :
       /\ checks[id].status = "down"
       /\ checks[id].consecutive_down_count = 2
       /\ id \in accepted

\* the ids of the checks that have been deleted
DeletedIds == { id \in 1..(nextId - 1) : id \notin DOMAIN checks }

\* C38: a deleted check is never re-created or modified by a later operation.
\* A down write for the id of a deleted check, and a ping, failure report or
\* toggle for its token, change no record; no step brings a deleted id or its
\* token back; a created check gets an id above every id used before.
C38_DeletedCheckStaysDeleted ==
  [][ /\ \A id \in DeletedIds :
           /\ StaleSetDown(id) => checks' = checks /\ gauges' = gauges
           /\ ( \/ PingMiss(Uuid(id))
                \/ \E r \in ReasonInputs : FailMiss(Uuid(id), r)
                \/ MaintenanceMiss(Uuid(id)) )
              => checks' = checks /\ gauges' = gauges /\ event'.code = 404
           /\ id \notin DOMAIN checks'
           /\ getCheckByUuid(checks', Uuid(id)) = <<>>
      /\ \A id \in (DOMAIN checks') \ (DOMAIN checks) :
           id = nextId /\ nextId' = nextId + 1 ]_vars

\* C38 witness: a down write for the deleted first check has arrived while a
\* check created after the delete is stored, and that check is as created
C38_Witness ==
  /\ event.op = "stale-down"
  /\ event.uuid = Uuid(1)
  /\ 1 \notin DOMAIN checks
  /\ (BatchSize + 1) \in DOMAIN checks
  /\ checks[BatchSize + 1].status = "new"
  /\ checks[BatchSize + 1].consecutive_down_count = 0

\* the store, the metrics and the cache are as they were
ClaimNothingWritten == checks' = checks /\ gauges' = gauges /\ cache' = cache

\* C39 (as claimed): a session is admin only from a login with a secret equal
\* to ADMIN_SECRET until its next logout, and a create, delete, failure
\* report or toggle requested by a session that is not admin is answered 401
\* and leaves store, metrics and cache unchanged; pings and list reads are
\* answered without a session.
C39_AdminNeedsLoginWithSecret ==
  [][ \A s \in Sessions :
        /\ (~auth.isAdmin[s] /\ auth'.isAdmin[s]) =>
             /\ event'.op = "login"
             /\ event'.code = 200
             /\ event'.body = << [ session |-> s, secret |-> auth.secret ] >>
        /\ Logout(s) => ~auth'.isAdmin[s]
        /\ ~auth.isAdmin[s] =>
             /\ \A b \in ListBodies :
                  AdminPostCheck(s, b.name, b.schedule, b.grace) =>
                    event'.code = 401 /\ ClaimNothingWritten
             /\ \A u \in Tokens :
                  /\ AdminDeleteCheck(s, u) =>
                       event'.code = 401 /\ ClaimNothingWritten
                  /\ AdminPostMaintenance(s, u) =>
                       event'.code = 401 /\ ClaimNothingWritten
                  /\ \A r \in ReasonInputs :
                       AdminPostFail(s, u, r) =>
                         event'.code = 401 /\ ClaimNothingWritten
        /\ \A u \in Tokens : Ping(u, NULL) => event'.code \in {200, 404}
        /\ GetChecks(FirstPage) => event'.code = 200 ]_vars

=============================================================================
